---- MODULE Spec2Model ----
(***************************************************************************)
(* A model of first_game.py: the Snake game (classes Snake, Apple, Game).  *)
(* Positions are pixel coordinates <<x, y>> of a rectangle's top-left      *)
(* corner; every rectangle is object_size x object_size.                   *)
(***************************************************************************)
EXTENDS Integers, Sequences, FiniteSets, TLC

\* ------------------------------------------------------------ constants
screen_width == 800
screen_height == 600
object_size == 20
min_move_delay == 50
move_delay_step == 5
initial_move_delay == 200

\* --------------------------------------------------------------- bounds
\* get_ticks() never exceeds MaxTime in the model.
MaxTime == 419
\* pygame.event.get() returns at most MaxEvents events per call.
MaxEvents == 2
\* A restart is taken only while run() resumes at most MaxDepth calls deep.
MaxDepth == 3
\* Of the cells randrange() may draw, the behaviours explored take those in
\* the SpawnCols first columns or the last column of the grid, and in the
\* SpawnRows first rows or the last row.
SpawnCols == 2
SpawnRows == 2

\* The second specification starts from a straight snake of LongLen segments.
LongLen == 30

\* Milliseconds one frame of Game.run may take (clock.tick(60) included).
FrameDts == {195, 201}
\* Milliseconds one pass of the game-over loop may take.
OverDts == {0, 100}
\* clock.tick(60): a frame the machine keeps up with, in whole milliseconds.
TickMs == 1000 \div 60 + 1

\* --------------------------------------------------------------- events
Directions == {"UP", "DOWN", "LEFT", "RIGHT"}

key_to_direction ==
    [k \in {"K_UP", "K_w", "K_DOWN", "K_s", "K_LEFT", "K_a", "K_RIGHT", "K_d"} |->
        CASE k \in {"K_UP", "K_w"} -> "UP"
          [] k \in {"K_DOWN", "K_s"} -> "DOWN"
          [] k \in {"K_LEFT", "K_a"} -> "LEFT"
          [] k \in {"K_RIGHT", "K_d"} -> "RIGHT"]

Keys == DOMAIN key_to_direction \cup {"K_ESCAPE", "K_z"}

KeyDown(k) == [type |-> "KEYDOWN", key |-> k]

\* The events pygame.event.get() may deliver.
Events ==
    {[type |-> "QUIT", key |-> "NONE"], [type |-> "KEYUP", key |-> "K_ESCAPE"]}
        \cup {KeyDown(k) : k \in Keys}

NoEvent == [type |-> "NOEVENT", key |-> "NONE"]

\* ------------------------------------------------------------- geometry
Max(a, b) == IF a >= b THEN a ELSE b

\* pygame.Rect.colliderect for two object_size squares.
colliderect(a, b) ==
    /\ a[1] < b[1] + object_size
    /\ b[1] < a[1] + object_size
    /\ a[2] < b[2] + object_size
    /\ b[2] < a[2] + object_size

GridCols == screen_width \div object_size
GridRows == screen_height \div object_size

\* random.randrange(0, width // object_size) and
\* random.randrange(0, height // object_size).
RandCols == 0..(GridCols - 1)
RandRows == 0..(GridRows - 1)

\* The values Game.get_random_position may return.
get_random_position ==
    {c * object_size : c \in RandCols} \X {r * object_size : r \in RandRows}

\* The head one cell further in direction d.
Advance(p, d) ==
    CASE d = "UP" -> <<p[1], p[2] - object_size>>
      [] d = "DOWN" -> <<p[1], p[2] + object_size>>
      [] d = "LEFT" -> <<p[1] - object_size, p[2]>>
      [] d = "RIGHT" -> <<p[1] + object_size, p[2]>>

\* Snake.move, lines 62-72: the trailing segments follow, the head advances.
ShiftPartsForward(ps, d) ==
    [i \in 1..Len(ps) |-> IF i = 1 THEN Advance(ps[1], d) ELSE ps[1]]

ShiftParts(ps, d) ==
    [i \in 1..Len(ps) |-> IF i = 1 THEN Advance(ps[1], d) ELSE ps[i - 1]]

\* Snake.check_collision, lines 80-84: the condition that ends the round.
HitsSelfOrWall(ps) ==
    \/ \E i \in 2..Len(ps) : colliderect(ps[1], ps[i])
    \/ ps[1][1] \notin 0..(screen_width - 1)
    \/ ps[1][2] \notin 0..(screen_height - 1)

\* Snake.grow: a new tail next to the last segment, opposite to d.
grow(ps, d) ==
    LET last_part == ps[Len(ps)]
        new_part ==
            CASE d = "UP" -> <<last_part[1], last_part[2] + object_size>>
              [] d = "DOWN" -> <<last_part[1], last_part[2] - object_size>>
              [] d = "LEFT" -> <<last_part[1] + object_size, last_part[2]>>
              [] d = "RIGHT" -> <<last_part[1] - object_size, last_part[2]>>
    IN  Append(ps, new_part)

\* Snake.increase_speed.
increase_speed_unfloored(delay) == delay - move_delay_step

increase_speed_floor_first(delay) ==
    Max(min_move_delay, delay) - move_delay_step

increase_speed(delay) == Max(min_move_delay, delay - move_delay_step)

\* Apple.__init__: the positions its resampling loop may end on. Every
\* caller leaves old_position at its default, None.
NoPosition == <<-1, -1>>

ApplePositions(ps, old_position) ==
    {p \in get_random_position :
        ~(p = old_position \/ \E i \in 2..Len(ps) : p = ps[i])}

\* The draws explored: the cells of the spawn window (bounds SpawnCols and
\* SpawnRows).
SpawnWindow ==
    {<<c * object_size, r * object_size>> :
        c \in {c \in RandCols : c < SpawnCols \/ c = GridCols - 1},
        r \in {r \in RandRows : r < SpawnRows \/ r = GridRows - 1}}

\* ---------------------------------------------------------------- state
VARIABLES
    parts,           \* snake.parts, head first
    direction,       \* snake.direction
    move_delay,      \* snake.move_delay
    last_move_time,  \* snake.last_move_time
    apple,           \* game.apple.rect.topleft
    running,         \* game.running
    now,             \* pygame.time.get_ticks(), counted from the first state
    pc,              \* the statement of run() / game_over() about to execute
    n_events,        \* events of the current batch already handled
    event,           \* the loop variable `event`, NoEvent outside the loop
    depth,           \* nested invocations of run() and game_over()
    eaten,           \* apples eaten by the current snake
    last_dir,        \* direction of the current snake's latest move
    last_len,        \* len(parts) when the current snake's latest move() returned
    esc_quit,        \* an Escape keydown was handled during the current round
    pre              \* the snake and apple as the frame's move() found them

vars == <<parts, direction, move_delay, last_move_time, apple, running, now, pc,
          n_events, event, depth, eaten, last_dir, last_len, esc_quit, pre>>

snake_vars == <<parts, direction, move_delay, last_move_time>>
hist_vars == <<eaten, last_dir, last_len, esc_quit, pre>>

NoPre == [moved |-> FALSE, parts |-> <<>>, apple |-> NoPosition,
          move_delay |-> 0, eaten |-> 0, running |-> FALSE]

\* Game.__init__: a one-segment snake and an apple, both at random.
Init ==
    /\ \E p \in SpawnWindow : p \in get_random_position /\ parts = <<p>>
    /\ direction = "RIGHT"
    /\ move_delay = initial_move_delay
    /\ last_move_time = 0
    /\ apple \in SpawnWindow \cap ApplePositions(parts, NoPosition)
    /\ running = TRUE
    /\ now = 0
    /\ pc = "handle_input"
    /\ n_events = 0
    /\ event = NoEvent
    /\ depth = 1
    /\ eaten = 0
    /\ last_dir = "NONE"
    /\ last_len = 0
    /\ esc_quit = FALSE
    /\ pre = NoPre

\* -------------------------------------------------------------- actions
\* Game.handle_input, lines 206-213: the direction after a direction key
\* mapped to new_direction.
TurnAlways(dir, new_direction) == new_direction

Turn(dir, new_direction) ==
    IF \/ (new_direction = "UP" /\ dir # "DOWN")
       \/ (new_direction = "DOWN" /\ dir # "UP")
       \/ (new_direction = "LEFT" /\ dir # "RIGHT")
       \/ (new_direction = "RIGHT" /\ dir # "LEFT")
    THEN new_direction
    ELSE dir

\* One iteration of the for loop of Game.handle_input.
HandleEvent(e) ==
    /\ pc = "handle_input"
    /\ n_events < MaxEvents
    /\ n_events' = n_events + 1
    /\ event' = e
    /\ running' = IF e.type = "QUIT" \/ e = KeyDown("K_ESCAPE") THEN FALSE ELSE running
    /\ direction' =
        IF e.type = "KEYDOWN" /\ e.key \in DOMAIN key_to_direction
        THEN Turn(direction, key_to_direction[e.key])
        ELSE direction
    /\ esc_quit' = (esc_quit \/ e = KeyDown("K_ESCAPE"))
    /\ UNCHANGED <<parts, move_delay, last_move_time, apple, now, pc, depth,
                   eaten, last_dir, last_len, pre>>

\* Game.handle_input returns: the batch is exhausted.
InputDone ==
    /\ pc = "handle_input"
    /\ pc' = "move"
    /\ n_events' = 0
    /\ event' = NoEvent
    /\ UNCHANGED <<snake_vars, apple, running, now, depth, hist_vars>>

\* Snake.check_collision on the segments ps.
check_collision(ps) ==
    /\ running' = IF HitsSelfOrWall(ps) THEN FALSE ELSE running
    /\ IF colliderect(ps[1], apple)
       THEN /\ parts' = grow(ps, direction)
            /\ move_delay' = increase_speed(move_delay)
            /\ apple' \in SpawnWindow \cap ApplePositions(parts', NoPosition)
            /\ eaten' = eaten + 1
       ELSE /\ parts' = ps
            /\ UNCHANGED <<move_delay, apple, eaten>>

\* Snake.move, lines 58-60: the call returns without moving the snake.
MoveGatedEarly(current_time) == current_time - last_move_time < move_delay

MoveGated(current_time) == current_time - last_move_time <= move_delay

\* Game.get_score: the number of segments.
get_score == Len(parts)

\* Game.run, line 241: snake.move().
Move ==
    /\ pc = "move"
    /\ pc' = "check_collision"
    /\ IF MoveGated(now)
       THEN /\ pre' = [moved |-> FALSE, parts |-> parts, apple |-> apple,
                       move_delay |-> move_delay, eaten |-> eaten,
                       running |-> running]
            /\ UNCHANGED <<parts, move_delay, last_move_time, apple, running,
                           eaten, last_dir, last_len>>
       ELSE /\ pre' = [moved |-> TRUE, parts |-> parts, apple |-> apple,
                       move_delay |-> move_delay, eaten |-> eaten,
                       running |-> running]
            /\ last_move_time' = now
            /\ last_dir' = direction
            /\ check_collision(ShiftParts(parts, direction))
            /\ last_len' = Len(parts')
    /\ UNCHANGED <<direction, now, n_events, event, depth, esc_quit>>

\* Game.run, line 242: snake.check_collision().
CheckCollision ==
    /\ pc = "check_collision"
    /\ pc' = "tick"
    /\ check_collision(parts)
    /\ UNCHANGED <<direction, last_move_time, now, n_events, event, depth,
                   last_dir, last_len, esc_quit, pre>>

\* Game.run, lines 243-245 and 239: draw, clock.tick(60), the loop test, and
\* the call of game_over() when the loop ends.
DrawTick ==
    /\ pc = "tick"
    /\ \E dt \in FrameDts :
        /\ now + dt <= MaxTime
        /\ now' = now + dt
    /\ IF running
       THEN pc' = "handle_input" /\ depth' = depth
       ELSE pc' = "game_over" /\ depth' = depth + 1
    /\ pre' = NoPre
    /\ UNCHANGED <<snake_vars, apple, running, n_events, event, eaten,
                   last_dir, last_len, esc_quit>>

\* Snake.__init__: the snake created at position, at time current_time.
NewSnakeKeepsSpeed(position, current_time) ==
    [parts |-> <<position>>, direction |-> direction,
     move_delay |-> move_delay, last_move_time |-> current_time]

NewSnake(position, current_time) ==
    [parts |-> <<position>>, direction |-> "RIGHT",
     move_delay |-> initial_move_delay, last_move_time |-> current_time]

\* Game.game_over, line 266: the event that restarts the game.
IsAnyKeyDown(e) == e.type = "KEYDOWN"

IsRestartEvent(e) == e.type = "KEYDOWN" /\ e.key = "K_ESCAPE"

\* One iteration of the for loop of Game.game_over, lines 262-272.
GameOverEvent(e) ==
    /\ pc = "game_over"
    /\ n_events < MaxEvents
    /\ n_events' = n_events + 1
    /\ event' = e
    /\ IF e.type = "QUIT"
       THEN /\ pc' = "exited"
            /\ UNCHANGED <<snake_vars, apple, running, eaten, last_dir, last_len,
                           esc_quit>>
       ELSE IF IsRestartEvent(e)
       THEN /\ depth + 1 <= MaxDepth
            /\ running' = TRUE
            /\ \E p \in SpawnWindow :
                LET snake == NewSnake(p, now) IN
                /\ p \in get_random_position
                /\ parts' = snake.parts
                /\ direction' = snake.direction
                /\ move_delay' = snake.move_delay
                /\ last_move_time' = snake.last_move_time
            /\ apple' \in SpawnWindow \cap ApplePositions(parts', NoPosition)
            /\ eaten' = 0
            /\ last_dir' = "NONE"
            /\ last_len' = 0
            /\ esc_quit' = FALSE
            /\ pc' = pc
       ELSE /\ pc' = pc
            /\ UNCHANGED <<snake_vars, apple, running, eaten, last_dir, last_len,
                           esc_quit>>
    /\ UNCHANGED <<now, depth, pre>>

\* Game.game_over, lines 260-261 and 273: the batch is exhausted; the while
\* test either polls again or, after a restart, calls run().
GameOverDone ==
    /\ pc = "game_over"
    /\ n_events' = 0
    /\ event' = NoEvent
    /\ \E dt \in OverDts :
        /\ now + dt <= MaxTime
        /\ now' = now + dt
    /\ IF running
       THEN pc' = "handle_input" /\ depth' = depth + 1
       ELSE pc' = "game_over" /\ depth' = depth
    /\ UNCHANGED <<snake_vars, apple, running, hist_vars>>

Next ==
    \/ \E e \in Events : HandleEvent(e)
    \/ InputDone
    \/ Move
    \/ CheckCollision
    \/ DrawTick
    \/ \E e \in Events : GameOverEvent(e)
    \/ GameOverDone

Spec == Init /\ [][Next]_vars

\* A round in progress: a straight snake of LongLen segments heading RIGHT
\* along the first or the last row, its head in the last column, having
\* eaten LongLen - 1 apples, at the start of the frame after its latest
\* move.  An apple under the head was put there by the game loop's
\* check_collision() of that frame, which grew the snake after move() had
\* returned.
InitLong ==
    /\ \E y \in {0, screen_height - object_size} :
        parts = [i \in 1..LongLen |->
                    <<screen_width - i * object_size, y>>]
    /\ direction = "RIGHT"
    /\ move_delay = Max(min_move_delay,
                        initial_move_delay - move_delay_step * (LongLen - 1))
    /\ last_move_time = 0
    /\ apple \in SpawnWindow \cap ApplePositions(parts, NoPosition)
    /\ running = TRUE
    /\ now = last_move_time + TickMs
    /\ pc = "handle_input"
    /\ n_events = 0
    /\ event = NoEvent
    /\ depth = 1
    /\ eaten = LongLen - 1
    /\ last_dir = "RIGHT"
    /\ last_len = (IF apple = parts[1] THEN LongLen - 1 ELSE LongLen)
    /\ esc_quit = FALSE
    /\ pre = NoPre

SpecLong == InitLong /\ [][Next]_vars

\* A round in progress: a six-segment snake that came along the first row,
\* went down, back under itself and up again, at the start of a frame, its
\* latest move UP into the corner one frame ago, having eaten five apples.
\* The apple is not under the head: the frame of the move would have eaten
\* it and left the tail elsewhere.
InitCoil ==
    /\ parts = <<<<0, 0>>, <<0, 20>>, <<20, 20>>, <<40, 20>>, <<40, 0>>, <<60, 0>>>>
    /\ direction = "UP"
    /\ move_delay = Max(min_move_delay,
                        initial_move_delay - move_delay_step * (Len(parts) - 1))
    /\ last_move_time = 0
    /\ apple \in (SpawnWindow \cap ApplePositions(parts, NoPosition)) \ {parts[1]}
    /\ running = TRUE
    /\ now = last_move_time + TickMs
    /\ pc = "handle_input"
    /\ n_events = 0
    /\ event = NoEvent
    /\ depth = 1
    /\ eaten = Len(parts) - 1
    /\ last_dir = "UP"
    /\ last_len = Len(parts)
    /\ esc_quit = FALSE
    /\ pre = NoPre

SpecCoil == InitCoil /\ [][Next]_vars

\* --------------------------------------------------------------- claims
head == parts[1]

Inside(p) ==
    /\ p[1] \in 0..(screen_width - 1)
    /\ p[2] \in 0..(screen_height - 1)

\* The direction opposite to d.
Opposite(d) ==
    CASE d = "UP" -> "DOWN"
      [] d = "DOWN" -> "UP"
      [] d = "LEFT" -> "RIGHT"
      [] d = "RIGHT" -> "LEFT"

QuitEvent == [type |-> "QUIT", key |-> "NONE"]
EscapeEvent == KeyDown("K_ESCAPE")

\* A step in which move() advanced the snake (it was not gated by the delay).
MoveStep == pc = "move" /\ pc' = "check_collision" /\ pre'.moved

\* A step that handles one event during play / in the game-over loop.
PlayEventStep == pc = "handle_input" /\ n_events' = n_events + 1
OverEventStep == pc = "game_over" /\ n_events' = n_events + 1

\* C1: after any move that leaves the head outside the screen or on the same
\* cell as any other segment of the snake, running is False by the time
\* move() returns, whatever the length and the direction.
C1_CollisionEndsRound ==
    [][MoveStep =>
        ((~Inside(parts'[1]) \/ \E i \in 2..Len(parts') : parts'[i] = parts'[1])
            => running' = FALSE)]_vars

\* C2: when a move brings the head onto the apple, then at the end of that
\* frame (after move() and the loop's own check_collision()) the snake has
\* exactly one more segment than before the move, move_delay is
\* max(50, previous - 5) and exactly one new Apple has replaced the old one.
C2_OneEffectPerApple ==
    (/\ pc = "tick"
     /\ pre.moved
     /\ Advance(pre.parts[1], last_dir) = pre.apple)
        => /\ Len(parts) = Len(pre.parts) + 1
           /\ move_delay = Max(50, pre.move_delay - 5)
           /\ eaten = pre.eaten + 1

\* The apple has just been created and no segment has changed since: right
\* after Game.__init__, after an apple was eaten in this frame, or after a
\* restart in the game-over loop.
AppleJustCreated ==
    \/ pc = "handle_input" /\ now = 0 /\ depth = 1
    \/ pc \in {"check_collision", "tick"} /\ eaten > pre.eaten
    \/ pc = "game_over" /\ running

\* C3: every time an Apple is created (game start, apple eaten, restart) its
\* position is not the position of any snake segment, the head included.
C3_AppleAvoidsSnake ==
    AppleJustCreated => \A i \in 1..Len(parts) : apple # parts[i]

\* C4: when an apple is eaten and replaced, the new apple's position differs
\* from the position of the apple it replaces.
C4_AppleMovesAway ==
    [][eaten' = eaten + 1 => apple' # apple]_vars

\* C5: a direction key mapped to the opposite of snake.direction leaves the
\* direction unchanged, any other direction key sets the direction to the
\* mapped one, and keys that are no direction keys never change it.
C5_NoReversalPerKey ==
    [][PlayEventStep =>
        LET e == event' IN
        IF e.type = "KEYDOWN" /\ e.key \in DOMAIN key_to_direction
        THEN IF key_to_direction[e.key] = Opposite(direction)
             THEN direction' = direction
             ELSE direction' = key_to_direction[e.key]
        ELSE direction' = direction]_vars

\* C5 witness: handle_input has just processed a key mapped to the opposite
\* of the snake's direction, and the snake still heads the other way.
C5_Witness ==
    /\ pc = "handle_input"
    /\ event.type = "KEYDOWN"
    /\ event.key \in DOMAIN key_to_direction
    /\ key_to_direction[event.key] = Opposite(direction)

\* C6: the direction in which the snake makes a move is never the opposite of
\* the direction of its immediately preceding move.
C6_NoReversalAcrossMoves ==
    [][(MoveStep /\ last_dir \in Directions)
        => last_dir' # Opposite(last_dir)]_vars

\* C7: at the end of every frame of play in which running is still True, the
\* segments of the snake occupy pairwise distinct cells.
C7_SegmentsDistinct ==
    (pc = "tick" /\ running)
        => \A i, j \in 1..Len(parts) : i # j => parts[i] # parts[j]

\* C8: an Escape keydown processed during play sets running to False in that
\* frame, and the program then terminates: it neither waits for further
\* input in the game-over loop nor starts a new round.
C8_EscapeQuits ==
    esc_quit =>
        /\ ~running
        /\ pc \in {"handle_input", "move", "check_collision", "tick", "exited"}

\* A step of the game-over loop that handles an Escape keydown: a restart.
RestartStep == OverEventStep /\ event' = EscapeEvent

\* C9: 50 <= move_delay <= 200 in every reachable state; within a round
\* move_delay never increases; each eaten apple lowers it by 5 until it
\* reaches 50, after which it stays at 50.
C9_DelayFlooredMonotone ==
    /\ [](min_move_delay <= move_delay /\ move_delay <= initial_move_delay)
    /\ [][/\ ~RestartStep => move_delay' <= move_delay
          /\ eaten' = eaten + 1 =>
                move_delay' = (IF move_delay - 5 >= 50 THEN move_delay - 5 ELSE 50)]_vars

\* C9 witness: an apple has been eaten by a snake whose delay was already at
\* the floor, and the delay is still 50.
C9_Witness ==
    /\ pc = "tick"
    /\ pre.move_delay = 50
    /\ eaten > pre.eaten
    /\ move_delay = 50

\* C10: in the game-over loop every event other than QUIT and an Escape
\* keydown leaves the snake, the apple and running unchanged and the loop
\* waiting; QUIT terminates the program; only an Escape keydown makes running
\* True again, and only then is the loop left for a new round.
C10_GameOverBlocks ==
    [][/\ OverEventStep =>
            LET e == event' IN
            /\ e \notin {QuitEvent, EscapeEvent} =>
                  /\ UNCHANGED <<parts, direction, move_delay, last_move_time,
                                 apple, running>>
                  /\ pc' = "game_over"
            /\ e = QuitEvent => pc' = "exited"
       /\ (pc = "game_over" /\ ~OverEventStep) =>
              UNCHANGED <<parts, direction, move_delay, last_move_time, apple,
                          running>>
       /\ (pc = "game_over" /\ ~running /\ running') => RestartStep
       /\ (pc = "game_over" /\ pc' = "handle_input") => running]_vars

\* C10 witness: the game-over loop has handled an event that is neither QUIT
\* nor Escape, and is still waiting with the round over.
C10_Witness ==
    /\ pc = "game_over"
    /\ ~running
    /\ event = KeyDown("K_z")

\* C11: when game_over() handles an Escape keydown then, before run()
\* resumes, running is True, the snake is a new one with exactly one segment,
\* direction RIGHT and move_delay 200, and the apple is a new one created
\* against that snake; no length, direction or speed carries over.
C11_RestartIsFresh ==
    /\ [][RestartStep =>
            /\ running'
            /\ Len(parts') = 1
            /\ parts'[1] \in get_random_position
            /\ direction' = "RIGHT"
            /\ move_delay' = 200
            /\ last_move_time' = now
            /\ eaten' = 0
            /\ apple' \in get_random_position]_vars
    /\ []((pc = "game_over" /\ running) =>
            /\ Len(parts) = 1
            /\ direction = "RIGHT"
            /\ move_delay = 200
            /\ eaten = 0)

\* C11 witness: the game-over loop has just handled an Escape keydown at a
\* time after the start, and run() has not yet resumed.
C11_Witness ==
    /\ pc = "game_over"
    /\ event = EscapeEvent
    /\ running
    /\ now > 0
    /\ Len(parts) = 1
    /\ move_delay = 200

\* The snake's very next move after a move to the RIGHT is a move to the
\* LEFT, and it has not grown since the first of the two returned.
RightThenLeft ==
    /\ MoveStep
    /\ last_dir = "RIGHT"
    /\ direction = "LEFT"
    /\ Len(parts) = last_len

\* C12: a move to the right followed, as the snake's very next move, by a
\* move to the left, with no growth in between, ends the game, whatever the
\* length of the snake.
C12_ReversalEndsGame ==
    [][RightThenLeft => running' = FALSE]_vars

\* The cell the head moved to in this frame's move().
Destination == Advance(pre.parts[1], last_dir)

\* This frame's move() advanced a snake whose round was still on (no quit or
\* Escape event before it) to a cell inside the screen that no body segment
\* occupies once the trailing segments have shifted.
MovedToFreeCell ==
    /\ pre.moved
    /\ pre.running
    /\ Inside(Destination)
    /\ \A i \in 1..(Len(pre.parts) - 1) : pre.parts[i] # Destination

\* C13: a move whose destination cell lies inside the screen and is not
\* occupied by any body segment once the trailing segments have shifted never
\* leaves running False at the end of that frame, also when the destination
\* holds the apple and the snake grows in that frame.
C13_OnlyRealCollisionsEnd ==
    (pc = "tick" /\ MovedToFreeCell) => running

\* The segments the snake had before the move, after it: each trailing
\* segment on the cell of the one before it, the head one cell
\* (object_size = 20 pixels) further in snake.direction.
TrailingUpdate ==
    /\ \A i \in 2..Len(parts) : parts'[i] = parts[i - 1]
    /\ parts'[1] =
        (CASE direction = "UP" -> <<parts[1][1], parts[1][2] - 20>>
           [] direction = "DOWN" -> <<parts[1][1], parts[1][2] + 20>>
           [] direction = "LEFT" -> <<parts[1][1] - 20, parts[1][2]>>
           [] direction = "RIGHT" -> <<parts[1][1] + 20, parts[1][2]>>)

\* C14: a move that is not gated by the delay leaves the number of segments
\* unchanged, puts every segment i >= 1 on the cell that segment i-1 occupied
\* before the move, and puts the head exactly one cell away from its previous
\* cell in snake.direction.
C14_TrailingUpdate ==
    [][MoveStep => (Len(parts') = Len(parts) /\ TrailingUpdate)]_vars

\* C14 as amended: the number of segments is unchanged unless the head lands
\* on the apple, when move() appends one segment after the update.
C14_TrailingUpdateThenGrowth ==
    [][MoveStep =>
        /\ Len(parts') = (IF parts'[1] = apple THEN Len(parts) + 1 ELSE Len(parts))
        /\ TrailingUpdate]_vars

\* C14 witness: a snake of two segments or more has turned and moved up or
\* down without growing.
C14_Witness ==
    /\ pc = "check_collision"
    /\ pre.moved
    /\ Len(pre.parts) >= 2
    /\ Len(parts) = Len(pre.parts)
    /\ last_dir \in {"UP", "DOWN"}
    /\ parts[2] = pre.parts[1]
    /\ parts[1] # pre.parts[1]

\* One call of snake.move() from the game loop, gated or not.
MoveCall == pc = "move" /\ pc' = "check_collision"

\* C15: move() changes nothing (segment positions, last_move_time, running,
\* apple) unless strictly more than move_delay milliseconds have passed since
\* last_move_time; the snake advances at most one cell per call; and any two
\* consecutive moves, like the creation of the snake and its first move, are
\* more than the then-current move_delay apart (last_move_time is written
\* only by a move and by the creation of a snake).
C15_MoveIsTimeGated ==
    /\ [][MoveCall =>
            /\ (now - last_move_time <= move_delay
                    => UNCHANGED <<parts, last_move_time, running, apple>>)
            /\ (parts' # parts
                    => (now - last_move_time > move_delay /\ last_move_time' = now))
            /\ parts'[1] \in {parts[1]} \cup {Advance(parts[1], d) : d \in Directions}]_vars
    /\ [][last_move_time' # last_move_time => (MoveStep \/ RestartStep)]_vars

\* C15 witness: move() was called exactly move_delay milliseconds after the
\* last move, with a snake that had already moved and grown, and returned
\* without moving it.
C15_Witness ==
    /\ pc = "check_collision"
    /\ ~pre.moved
    /\ last_move_time > 0
    /\ now - last_move_time = move_delay
    /\ parts = pre.parts

\* C16: at the end of every frame in which running is True, every segment of
\* the snake, not only the head, lies inside the screen
\* (0 <= x <= 780, 0 <= y <= 580).
C16_SegmentsInsideScreen ==
    (pc = "tick" /\ running) =>
        \A i \in 1..Len(parts) :
            /\ 0 <= parts[i][1] /\ parts[i][1] <= 780
            /\ 0 <= parts[i][2] /\ parts[i][2] <= 580

\* C17: at the end of every frame of play the apple's cell is not occupied
\* by any segment of snake.parts other than the head.
C17_AppleNotUnderBody ==
    pc = "tick" => \A i \in 2..Len(parts) : parts[i] # apple

\* C18: in every reachable state of a round, snake.move_delay is
\* max(50, 200 - 5 * (len(snake.parts) - 1)), and the score shown by
\* get_score (the number of segments) is 1 plus the number of apples eaten in
\* that round.
C18_ScoreAndSpeed ==
    /\ move_delay = Max(50, 200 - 5 * (Len(parts) - 1))
    /\ get_score = 1 + eaten

\* C18 witness: a snake whose delay had reached the floor has eaten one more
\* apple; the formula without the floor would give less than 50.
C18_Witness ==
    /\ pc = "tick"
    /\ pre.move_delay = 50
    /\ get_score = Len(pre.parts) + 1
    /\ 200 - 5 * (get_score - 1) < 50
    /\ move_delay = 50

\* C19: playing further rounds does not deepen the call stack: the number of
\* nested, not yet returned invocations of run() and game_over() is the same
\* whatever the number of restarts, so the run() that plays the round after a
\* restart is no deeper than the run() that played the round before it
\* (one less than the game_over() that followed that round).
C19_RestartKeepsStackDepth ==
    [][(pc = "game_over" /\ pc' = "handle_input") => depth' <= depth - 1]_vars

====
